---- MODULE Spec2Model ----
(***************************************************************************)
(* Knowledge-base ingestion and retrieval of Bottle-agent                  *)
(* (src/src/rag_system): the KnowledgeBaseManager registry and storage     *)
(* directory, document chunking, index construction and the query paths.   *)
(*                                                                         *)
(* Text is a sequence of one-character strings, so that sanitisation,      *)
(* paragraph splitting and stripping are computed as the code computes     *)
(* them.  Similarity scores are kept exact: a score is dot / sqrt(den2)    *)
(* with integer dot and den2, and comparisons are done on squares.         *)
(***************************************************************************)
EXTENDS Integers, Sequences, FiniteSets, TLC

VARIABLES
    knowledge_bases,   \* self.knowledge_bases: name -> KnowledgeBaseInfo
    index_file,        \* storage_path/knowledge_bases.json as last written
    storage,           \* storage_path/<dir>/{vector_index.faiss, chunks.pkl}
    updating,          \* update_knowledge_base between its two calls
    last,              \* the call that has just ended, until its caller
                       \* has taken the result: arguments, result, effects
    call,              \* a call of a function of DocumentProcessor or
                       \* EmbeddingClient, or of a method of AgentManager:
                       \* its arguments, then its result
    agents,            \* AgentManager.agents: name -> AgentConfig
    config_file        \* storage_path/agents.json as last written

vars == <<knowledge_bases, index_file, storage, updating, last, call,
          agents, config_file>>

-----------------------------------------------------------------------------
(* Text *)

NL == "\n"
Whitespace == {" ", NL}

\* str.strip()
RECURSIVE LStrip(_)
LStrip(s) == IF s # <<>> /\ Head(s) \in Whitespace THEN LStrip(Tail(s)) ELSE s

RECURSIVE RStrip(_)
RStrip(s) ==
    IF s # <<>> /\ s[Len(s)] \in Whitespace
    THEN RStrip(SubSeq(s, 1, Len(s) - 1))
    ELSE s

Strip(s) == RStrip(LStrip(s))

\* str.split('\n\n'): left to right, non-overlapping separators
RECURSIVE SplitParagraphs(_, _)
SplitParagraphs(s, cur) ==
    IF s = <<>> THEN <<cur>>
    ELSE IF Len(s) >= 2 /\ s[1] = NL /\ s[2] = NL
         THEN <<cur>> \o SplitParagraphs(SubSeq(s, 3, Len(s)), <<>>)
         ELSE SplitParagraphs(Tail(s), Append(cur, Head(s)))

\* s[-n:] for n > 0
LastChars(s, n) == IF Len(s) <= n THEN s ELSE SubSeq(s, Len(s) - n + 1, Len(s))

-----------------------------------------------------------------------------
(* Configuration (config["rag"], config["knowledge_base"]) *)

\* rag.chunk_size and rag.chunk_overlap, scaled down to the size of the
\* model's documents
chunk_size == 4
chunk_overlap == 2

\* rag.similarity_threshold = 0.7 = SimilarityThresholdNum / SimilarityThresholdDen
SimilarityThresholdNum == 7
SimilarityThresholdDen == 10

supported_formats == {".txt", ".md"}

-----------------------------------------------------------------------------
(* KnowledgeBaseManager._safe_kb_name *)

UnsafeChars == {"/", "\\", ":", "<", ">", "|", "?", "*", "\""}

_safe_kb_name(kb_name) ==
    [i \in 1..Len(kb_name) |->
        IF kb_name[i] \in UnsafeChars THEN "_" ELSE kb_name[i]]

-----------------------------------------------------------------------------
(* DocumentProcessor *)

\* _process_txt / process_file: a readable text file becomes a Document whose
\* content is stripped (an empty file still yields a Document); a file whose
\* suffix process_folder does not support is skipped.
process_file(file) ==
    [id |-> <<file.name, file.text>>,
     title |-> file.name,
     content |-> Strip(file.text),
     source |-> file.name]

RECURSIVE process_folder(_)
process_folder(files) ==
    IF files = <<>> THEN <<>>
    ELSE IF Head(files).suffix \in supported_formats
         THEN <<process_file(Head(files))>> \o process_folder(Tail(files))
         ELSE process_folder(Tail(files))

\* a chunk whose id is the id of its document
CreateChunkWithDocumentId(document, content, chunk_index) ==
    [id |-> <<document.id>>,
     content |-> content,
     source |-> document.source,
     document_id |-> document.id,
     chunk_index |-> chunk_index,
     chunk_size |-> Len(content)]

\* chunk_id = f"{document.id}_chunk_{chunk_index}"
_create_chunk(document, content, chunk_index) ==
    [id |-> <<document.id, "_chunk_", chunk_index>>,
     content |-> content,
     source |-> document.source,
     document_id |-> document.id,
     chunk_index |-> chunk_index,
     chunk_size |-> Len(content)]

\* the body of the for loop of _chunk_document, on paragraphs[i..]
RECURSIVE ChunkLoop(_, _, _, _)
ChunkLoop(document, paragraphs, i, st) ==
    IF i > Len(paragraphs) THEN st
    ELSE
      LET paragraph == Strip(paragraphs[i])
          paragraph_size == Len(paragraph)
      IN
      IF paragraph = <<>> THEN ChunkLoop(document, paragraphs, i + 1, st)
      ELSE IF st.current_size + paragraph_size > chunk_size
              /\ st.current_chunk # <<>>
      THEN
        LET emitted == Append(st.chunks,
                 _create_chunk(document, Strip(st.current_chunk), st.chunk_index))
            next_chunk ==
                 IF chunk_overlap > 0
                 THEN LastChars(st.current_chunk, chunk_overlap)
                          \o <<NL, NL>> \o paragraph
                 ELSE paragraph
        IN ChunkLoop(document, paragraphs, i + 1,
              [chunks |-> emitted,
               current_chunk |-> next_chunk,
               current_size |-> IF chunk_overlap > 0 THEN Len(next_chunk)
                                ELSE paragraph_size,
               chunk_index |-> st.chunk_index + 1])
      ELSE
        ChunkLoop(document, paragraphs, i + 1,
              [st EXCEPT
                 !.current_chunk = IF st.current_chunk # <<>>
                                   THEN st.current_chunk \o <<NL, NL>> \o paragraph
                                   ELSE paragraph,
                 !.current_size = st.current_size + paragraph_size])

_chunk_document(document) ==
    LET st == ChunkLoop(document, SplitParagraphs(document.content, <<>>), 1,
                   [chunks |-> <<>>, current_chunk |-> <<>>,
                    current_size |-> 0, chunk_index |-> 0])
    IN IF Strip(st.current_chunk) # <<>>
       THEN Append(st.chunks,
                _create_chunk(document, Strip(st.current_chunk), st.chunk_index))
       ELSE st.chunks

RECURSIVE chunk_documents(_)
chunk_documents(documents) ==
    IF documents = <<>> THEN <<>>
    ELSE _chunk_document(Head(documents)) \o chunk_documents(Tail(documents))

-----------------------------------------------------------------------------
(* Embedding service and vector index *)

\* The external embedding model: a fixed text -> vector map of dimension 2
\* (the numbers of "a" and of "b" in the text).
Count(s, c) == Cardinality({i \in 1..Len(s) : s[i] = c})
EmbedModel(text) == <<Count(text, "a"), Count(text, "b")>>

\* embedding.provider of the configuration, and the providers the client
\* can be constructed with
provider == "openai"
Providers == {"openai", "huggingface"}

\* batch_size of _embed_openai, scaled down to the size of the model's lists
batch_size == 2

Min(a, b) == IF a <= b THEN a ELSE b

\* what an embedding call hands back: whether it raised, the number of calls
\* made to the provider, the vectors returned
Embedded(calls, vectors) == [raised |-> FALSE, calls |-> calls, vectors |-> vectors]
EmbedRaised(calls) == [raised |-> TRUE, calls |-> calls, vectors |-> <<>>]

EmbedBatch(batch) == [i \in 1..Len(batch) |-> EmbedModel(batch[i])]

\* the for loop of _embed_openai from offset i on: the provider call number
\* failing_call fails (0: none does)
RECURSIVE EmbedLoop(_, _, _, _, _)
EmbedLoop(texts, i, calls, embeddings, failing_call) ==
    IF i >= Len(texts) THEN Embedded(calls, embeddings)
    ELSE
      LET batch == SubSeq(texts, i + 1, Min(i + batch_size, Len(texts))) IN
      IF calls + 1 = failing_call THEN EmbedRaised(calls + 1)
      ELSE EmbedLoop(texts, i + batch_size, calls + 1,
                     embeddings \o EmbedBatch(batch), failing_call)

\* a loop that stops at the batch that fails and returns what it has
EmbedOpenaiKeepingPartial(texts, failing_call) ==
    LET n == IF failing_call = 0 THEN Len(texts)
             ELSE Min(Len(texts), (failing_call - 1) * batch_size)
    IN EmbedLoop(SubSeq(texts, 1, n), 0, 0, <<>>, 0)

_embed_openai(texts, failing_call) == EmbedLoop(texts, 0, 0, <<>>, failing_call)

\* one call of hf_model.encode for the whole list
_embed_huggingface(texts, failing_call) ==
    IF failing_call = 1 THEN EmbedRaised(1) ELSE Embedded(1, EmbedBatch(texts))

\* an embed_texts that hands every list to the provider
EmbedTextsAlwaysCalling(texts, configured, failing_call) ==
    IF configured = "openai" THEN _embed_openai(texts, failing_call)
    ELSE _embed_huggingface(texts, failing_call)

\* EmbeddingClient.embed_texts: [] is answered without calling the provider;
\* otherwise the provider is called and its failure is raised to the caller.
embed_texts(texts, configured, failing_call) ==
    IF texts = <<>> THEN Embedded(0, <<>>)
    ELSE IF configured = "openai" THEN _embed_openai(texts, failing_call)
    ELSE _embed_huggingface(texts, failing_call)

\* A float32 row is kept as the integer vector v and the square n2 of the norm
\* it has been divided by: the row is v / sqrt(n2).
Norm2(v) == v[1] * v[1] + v[2] * v[2]
Raw(v) == [v |-> v, n2 |-> 1]

\* faiss.normalize_L2: a zero row is left as it is
normalize_L2(row) ==
    IF Norm2(row.v) = 0 THEN row ELSE [v |-> row.v, n2 |-> row.n2 * Norm2(row.v)]

\* inner product of two rows: the score dot / sqrt(den2)
InnerProduct(a, b) ==
    [dot |-> a.v[1] * b.v[1] + a.v[2] * b.v[2], den2 |-> a.n2 * b.n2]

SignedSquare(d) == IF d >= 0 THEN d * d ELSE -(d * d)

\* s >= t on scores, exactly
ScoreGE(s, t) == SignedSquare(s.dot) * t.den2 >= SignedSquare(t.dot) * s.den2

\* the score faiss reports with label -1 when the index holds fewer than k rows
MissingScore == [dot |-> -1, den2 |-> 0]

similarity_threshold ==
    [dot |-> SimilarityThresholdNum,
     den2 |-> SimilarityThresholdDen * SimilarityThresholdDen]

\* IndexFlatIP.search(query_vector, top_k): the top_k rows by inner product,
\* best first (equal scores in row order), labels 0-based, padded with -1.
index_search(index, query_vector, top_k) ==
    LET n == Len(index)
        score(i) == InnerProduct(index[i], query_vector)
        before(j, i) ==
            \/ ~ScoreGE(score(i), score(j))
            \/ ScoreGE(score(i), score(j)) /\ ScoreGE(score(j), score(i)) /\ j < i
        rank(i) == Cardinality({j \in 1..n : j # i /\ before(j, i)})
    IN [p \in 1..top_k |->
          IF p <= n
          THEN LET i == CHOOSE i \in 1..n : rank(i) = p - 1
               IN [idx |-> i - 1, score |-> score(i)]
          ELSE [idx |-> -1, score |-> MissingScore]]

\* EmbeddingClient.compute_similarity: the cosine of the two vectors as the
\* score dot / sqrt(den2), and 0.0 when either vector has norm 0
compute_similarity(embedding1, embedding2) ==
    IF Norm2(embedding1) = 0 \/ Norm2(embedding2) = 0
    THEN [dot |-> 0, den2 |-> 1]
    ELSE [dot |-> embedding1[1] * embedding2[1] + embedding1[2] * embedding2[2],
          den2 |-> Norm2(embedding1) * Norm2(embedding2)]

\* the list of (index, similarity) pairs built by the loop of find_most_similar
Similarities(query_embedding, candidate_embeddings) ==
    [i \in 1..Len(candidate_embeddings) |->
        [idx |-> i - 1,
         score |-> compute_similarity(query_embedding, candidate_embeddings[i])]]

\* list.sort(key = score): a stable sort, so equal scores keep their order;
\* reverse = TRUE sorts by decreasing score and keeps that stability
SortByScore(pairs, reverse) ==
    LET n == Len(pairs)
        above(j, i) == IF reverse THEN ~ScoreGE(pairs[i].score, pairs[j].score)
                       ELSE ~ScoreGE(pairs[j].score, pairs[i].score)
        tied(j, i) == /\ ScoreGE(pairs[i].score, pairs[j].score)
                      /\ ScoreGE(pairs[j].score, pairs[i].score)
        before(j, i) == above(j, i) \/ (tied(j, i) /\ j < i)
        rank(i) == Cardinality({j \in 1..n : j # i /\ before(j, i)})
    IN [p \in 1..n |-> pairs[CHOOSE i \in 1..n : rank(i) = p - 1]]

\* the slice list[:k]: a negative k counts from the end
SliceTo(list, k) ==
    IF k >= 0 THEN SubSeq(list, 1, Min(k, Len(list)))
    ELSE SubSeq(list, 1, IF Len(list) + k > 0 THEN Len(list) + k ELSE 0)

\* a search that sorts without reverse
FindLeastSimilar(query_embedding, candidate_embeddings, top_k) ==
    SliceTo(SortByScore(Similarities(query_embedding, candidate_embeddings),
                        FALSE), top_k)

\* EmbeddingClient.find_most_similar
find_most_similar(query_embedding, candidate_embeddings, top_k) ==
    SliceTo(SortByScore(Similarities(query_embedding, candidate_embeddings),
                        TRUE), top_k)

\* Python list indexing chunks[idx]: a negative idx counts from the end
InRange(list, idx) == -Len(list) <= idx /\ idx < Len(list)
PyIndex(list, idx) == IF idx >= 0 THEN list[idx + 1] ELSE list[Len(list) + idx + 1]

-----------------------------------------------------------------------------
(* Files *)

NoFile == [st |-> "absent", data |-> <<>>]
CorruptFile == [st |-> "corrupt", data |-> <<>>]
FileOf(data) == [st |-> "ok", data |-> data]

\* open(path, 'w') and a dump into it: the open truncates the file, so a dump
\* that fails leaves a file that cannot be loaded
WriteFaults == {"none", "truncated"}
WriteFile(data, fault) == IF fault = "none" THEN FileOf(data) ELSE CorruptFile

EmptyDir == [index |-> NoFile, chunks |-> NoFile]

-----------------------------------------------------------------------------
(* KnowledgeBaseManager: registry and ingestion.  W is the manager's world:  *)
(* W.kbs = self.knowledge_bases, W.file = knowledge_bases.json,              *)
(* W.st = the directories under storage_path.                                *)

NoRegistry == [n \in {} |-> 0]

World == [kbs |-> knowledge_bases, file |-> index_file, st |-> storage]

\* how a call leaves the world: what it returned, or that an exception left it
Outcome(W, ret, effects) ==
    [w |-> W, ret |-> ret, raised |-> FALSE, effects |-> effects]
Thrown(W, effects) ==
    [w |-> W, ret |-> FALSE, raised |-> TRUE, effects |-> effects]

\* except Exception as e: ... return False
ReturnFalse(attempt) ==
    IF attempt.raised THEN Outcome(attempt.w, FALSE, attempt.effects) ELSE attempt

\* Path(folder_path).exists(): "docs" is the one source folder of the model
FolderExists(F, folder_path) == folder_path = "docs" /\ F.exists

\* kb_path.mkdir(exist_ok=True)
Mkdir(st, dir) ==
    IF dir \in DOMAIN st THEN st
    ELSE [d \in DOMAIN st \cup {dir} |-> IF d = dir THEN EmptyDir ELSE st[d]]

\* shutil.rmtree(kb_path)
Rmtree(st, dir) == [d \in DOMAIN st \ {dir} |-> st[d]]

\* _save_knowledge_bases_index: a failure is logged, never raised
_save_knowledge_bases_index(W, fault) ==
    [W EXCEPT !.file = WriteFile(W.kbs, fault)]

\* _build_vector_index(safe_name, chunks): nothing is written for no chunks
IndexRows(vectors) == [i \in 1..Len(vectors) |-> normalize_L2(Raw(vectors[i]))]

_build_vector_index(st, dir, vectors, fault) ==
    IF vectors = <<>> THEN st
    ELSE [st EXCEPT ![dir].index = WriteFile(IndexRows(vectors), fault)]

\* _save_chunks(safe_name, chunks): the chunks without their embeddings
_save_chunks(st, dir, chunks, fault) ==
    [st EXCEPT ![dir].chunks = WriteFile(chunks, fault)]

KnowledgeBaseInfo(name, description, folder_path, documents, chunks) ==
    [name |-> name,
     description |-> description,
     folder_path |-> folder_path,
     document_count |-> Len(documents),
     chunk_count |-> Len(chunks)]

\* a registration that keeps the entry a name already has
RegisterIfAbsent(kbs, name, info) ==
    [n \in DOMAIN kbs \cup {name} |-> IF n \in DOMAIN kbs THEN kbs[n] ELSE info]

Register(kbs, name, info) ==
    [n \in DOMAIN kbs \cup {name} |-> IF n = name THEN info ELSE kbs[n]]

Unregister(kbs, name) == [n \in DOMAIN kbs \ {name} |-> kbs[n]]

\* where an ingestion can be made to fail, and how
CreateFaults ==
    {"none", "mkdir", "process_folder", "chunk_documents", "embed",
     "write_index", "write_chunks", "save_registry"}

IndexWriteFault(fault) == IF fault = "write_index" THEN "truncated" ELSE "none"
ChunksWriteFault(fault) == IF fault = "write_chunks" THEN "truncated" ELSE "none"
SaveFault(fault) == IF fault = "save_registry" THEN "truncated" ELSE "none"

\* the try block of create_knowledge_base
CreateBody(W, F, name, folder_path, description, fault) ==
    LET safe_name == _safe_kb_name(name)
        made == [W EXCEPT !.st = Mkdir(W.st, safe_name)]
        documents == process_folder(F.files)
        chunks == chunk_documents(documents)
        embedded == embed_texts([i \in 1..Len(chunks) |-> chunks[i].content],
                                provider, IF fault = "embed" THEN 1 ELSE 0)
        indexed == [made EXCEPT !.st = _build_vector_index(made.st, safe_name,
                                   embedded.vectors, IndexWriteFault(fault))]
        index_written == chunks # <<>>
        saved == [indexed EXCEPT !.st = _save_chunks(indexed.st, safe_name,
                                   chunks, ChunksWriteFault(fault))]
        kb_info == KnowledgeBaseInfo(name, description, folder_path,
                                     documents, chunks)
        registered == [saved EXCEPT !.kbs = Register(saved.kbs, name, kb_info)]
        scanned == {"mkdir", "process_folder"}
        embedding == scanned \cup {"chunk_documents"}
                       \cup (IF embedded.calls > 0 THEN {"embed"} ELSE {})
        writing == embedding \cup (IF index_written THEN {"write_index"} ELSE {})
    IN
    IF fault = "mkdir" THEN Thrown(W, {"mkdir"})
    ELSE IF fault = "process_folder" THEN Thrown(made, scanned)
    ELSE IF documents = <<>> THEN Outcome(made, FALSE, scanned)
    ELSE IF fault = "chunk_documents"
         THEN Thrown(made, scanned \cup {"chunk_documents"})
    ELSE IF embedded.raised THEN Thrown(made, embedding)
    ELSE IF index_written /\ IndexWriteFault(fault) # "none"
         THEN Thrown(indexed, writing)
    ELSE IF ChunksWriteFault(fault) # "none"
         THEN Thrown(saved, writing \cup {"write_chunks"})
    ELSE Outcome(_save_knowledge_bases_index(registered, SaveFault(fault)), TRUE,
                 writing \cup {"write_chunks", "register", "save_registry"})

\* a create without the check for a registered name
CreateOverwriting(W, F, name, folder_path, description, fault) ==
    IF ~FolderExists(F, folder_path) THEN Outcome(W, FALSE, {})
    ELSE ReturnFalse(CreateBody(W, F, name, folder_path, description, fault))

\* a create that registers the info as soon as the chunks are known, before
\* the embedding and the file writes
CreateRegisteringEarly(W, F, name, folder_path, description, fault) ==
    LET attempt == CreateBody(W, F, name, folder_path, description, fault)
        documents == process_folder(F.files)
        kb_info == KnowledgeBaseInfo(name, description, folder_path, documents,
                                     chunk_documents(documents))
    IN
    IF name \in DOMAIN W.kbs THEN Outcome(W, FALSE, {})
    ELSE IF ~FolderExists(F, folder_path) THEN Outcome(W, FALSE, {})
    ELSE ReturnFalse(IF "chunk_documents" \in attempt.effects
                     THEN [attempt EXCEPT !.w.kbs = Register(@, name, kb_info)]
                     ELSE attempt)

create_knowledge_base(W, F, name, folder_path, description, fault) ==
    IF name \in DOMAIN W.kbs THEN Outcome(W, FALSE, {})
    ELSE IF ~FolderExists(F, folder_path) THEN Outcome(W, FALSE, {})
    ELSE ReturnFalse(CreateBody(W, F, name, folder_path, description, fault))

\* how a delete can be made to fail: shutil.rmtree before removing anything
\* or after removing the index file, or the write of the registry file
DeleteFaults == {"none", "rmtree", "rmtree_midway", "save_registry"}
RmtreeFaults == {"rmtree", "rmtree_midway"}

RmtreeFailed(st, dir, fault) ==
    IF fault = "rmtree_midway" THEN [st EXCEPT ![dir].index = NoFile] ELSE st

\* the try block of delete_knowledge_base
DeleteBody(W, kb_name, fault) ==
    LET safe_name == _safe_kb_name(kb_name)
        removed == [W EXCEPT !.st = Rmtree(W.st, safe_name)]
        deleted == [removed EXCEPT !.kbs = Unregister(removed.kbs, kb_name)]
    IN
    IF safe_name \in DOMAIN W.st /\ fault \in RmtreeFaults
    THEN Thrown([W EXCEPT !.st = RmtreeFailed(W.st, safe_name, fault)], {"rmtree"})
    ELSE Outcome(_save_knowledge_bases_index(deleted, SaveFault(fault)), TRUE,
                 (IF safe_name \in DOMAIN W.st THEN {"rmtree"} ELSE {})
                    \cup {"unregister", "save_registry"})

\* a delete without the check for an unregistered name
DeleteUnchecked(W, kb_name, fault) ==
    ReturnFalse(DeleteBody(W, kb_name, fault))

delete_knowledge_base(W, kb_name, fault) ==
    IF kb_name \notin DOMAIN W.kbs THEN Outcome(W, FALSE, {})
    ELSE ReturnFalse(DeleteBody(W, kb_name, fault))

\* a recreate that registers the rebuilt knowledge base under the chunk count
\* its info carried before the update
RecreateKeepingChunkCount(W, F, kb_name, kb_info, fault) ==
    LET done == create_knowledge_base(W, F, kb_name, kb_info.folder_path,
                                      kb_info.description, fault)
    IN IF done.ret
       THEN [done EXCEPT !.w.kbs[kb_name].chunk_count = kb_info.chunk_count]
       ELSE done

\* update_knowledge_base: the stored info is read, then delete, then create
UpdateRecreate(W, F, kb_name, kb_info, fault) ==
    create_knowledge_base(W, F, kb_name, kb_info.folder_path,
                          kb_info.description, fault)

\* an update that puts the world back as it was when the rebuild fails
UpdateWithRollback(W, F, kb_name, delete_fault, fault) ==
    IF kb_name \notin DOMAIN W.kbs THEN Outcome(W, FALSE, {})
    ELSE
      LET kb_info == W.kbs[kb_name]
          deletion == delete_knowledge_base(W, kb_name, delete_fault)
          creation == UpdateRecreate(deletion.w, F, kb_name, kb_info, fault)
      IN [creation EXCEPT !.w = IF creation.ret THEN creation.w ELSE W,
                          !.effects = deletion.effects \cup creation.effects]

update_knowledge_base(W, F, kb_name, delete_fault, fault) ==
    IF kb_name \notin DOMAIN W.kbs THEN Outcome(W, FALSE, {})
    ELSE
      LET kb_info == W.kbs[kb_name]
          deletion == delete_knowledge_base(W, kb_name, delete_fault)
          creation == UpdateRecreate(deletion.w, F, kb_name, kb_info, fault)
      IN [creation EXCEPT !.effects = deletion.effects \cup creation.effects]

-----------------------------------------------------------------------------
(* AgentManager.  A is the manager's world: A.agents = self.agents,
   A.file = agents.json.  Timestamps are the strings of Times, and "" is the
   created_at that has not been set.  The registry holds references: obj is
   the identity of the AgentConfig object an entry refers to, and two
   entries with the same obj are one object.  get_agent hands that object to
   the caller, who can pass it to a later call. *)

\* the identity of an object no registry entry refers to yet
NewObject == "new"

\* the reserved name and the prompt of _ensure_default_agent
DefaultAgentName == "default_assistant"
DefaultPrompt == "kb_assistant"

AgentNames == {DefaultAgentName, "coder"}

\* a name no call registers
UnknownAgentName == "ghost"
Prompts == {DefaultPrompt, "reviewer"}
Times == {"t1", "t2"}

\* AgentConfig(...) with its __post_init__: created_at is set when it is
\* empty, updated_at is set always
AgentConfig(name, system_prompt, created_at, now) ==
    [name |-> name, system_prompt |-> system_prompt,
     created_at |-> IF created_at = "" THEN now ELSE created_at,
     updated_at |-> now, obj |-> NewObject]

AgentWorld == [agents |-> agents, file |-> config_file]

AgentOutcome(A, ret) == [w |-> A, ret |-> ret]

\* an identity that no entry other than registry[name] has
Fresh(registry, name) ==
    CHOOSE o \in AgentNames :
        \A n \in DOMAIN registry \ {name} : registry[n].obj # o

\* self.agents[name] = config: the entry refers to the object passed
WithAgent(registry, name, config) ==
    [n \in DOMAIN registry \cup {name} |->
        IF n = name
        THEN IF config.obj = NewObject
             THEN [config EXCEPT !.obj = Fresh(registry, name)]
             ELSE config
        ELSE registry[n]]

\* the assignments to config.created_at and config.updated_at: every entry
\* that refers to the object shows them
Assigned(registry, config, created_at, updated_at) ==
    [n \in DOMAIN registry |->
        IF config.obj # NewObject /\ registry[n].obj = config.obj
        THEN [registry[n] EXCEPT !.created_at = created_at,
                                 !.updated_at = updated_at]
        ELSE registry[n]]

\* asdict(config): the fields, without the object's identity
AsDict(config) == [config EXCEPT !.obj = NewObject]

WithoutAgent(registry, name) == [n \in DOMAIN registry \ {name} |-> registry[n]]

\* _save_agents: a failure to write is logged and not raised
_save_agents(A, fault) ==
    [A EXCEPT !.file = WriteFile([n \in DOMAIN A.agents |-> AsDict(A.agents[n])],
                                 fault)]

\* _load_agents: every stored dict goes through AgentConfig(**config_dict);
\* a missing or unreadable file loads nothing
_load_agents(file, now) ==
    IF file.st = "ok"
    THEN [n \in DOMAIN file.data |->
            [AgentConfig(file.data[n].name, file.data[n].system_prompt,
                         file.data[n].created_at, now) EXCEPT !.obj = n]]
    ELSE NoRegistry

_ensure_default_agent(A, now, fault) ==
    IF DefaultAgentName \notin DOMAIN A.agents
    THEN _save_agents([A EXCEPT !.agents =
                          WithAgent(A.agents, DefaultAgentName,
                                    AgentConfig(DefaultAgentName, DefaultPrompt,
                                                "", now))], fault)
    ELSE A

\* AgentManager.__init__ on the file that is on disk
AgentManagerInit(file, now, fault) ==
    _ensure_default_agent([agents |-> _load_agents(file, now), file |-> file],
                          now, fault)

create_agent(A, config, fault) ==
    IF config.name \in DOMAIN A.agents THEN AgentOutcome(A, FALSE)
    ELSE AgentOutcome(_save_agents([A EXCEPT !.agents =
                                       WithAgent(A.agents, config.name, config)],
                                   fault), TRUE)

update_agent(A, name, config, now, fault) ==
    IF name \notin DOMAIN A.agents THEN AgentOutcome(A, FALSE)
    ELSE LET created_at == A.agents[name].created_at
             stored == [config EXCEPT !.created_at = created_at,
                                      !.updated_at = now]
             assigned == Assigned(A.agents, config, created_at, now)
         IN AgentOutcome(_save_agents([A EXCEPT !.agents =
                                          WithAgent(assigned, name, stored)],
                                      fault), TRUE)

\* a delete_agent without the test for the default profile
DeleteAgentUnguarded(A, name, fault) ==
    IF name \notin DOMAIN A.agents THEN AgentOutcome(A, FALSE)
    ELSE AgentOutcome(_save_agents([A EXCEPT !.agents =
                                       WithoutAgent(A.agents, name)], fault),
                      TRUE)

delete_agent(A, name, fault) ==
    IF name \notin DOMAIN A.agents THEN AgentOutcome(A, FALSE)
    ELSE IF name = DefaultAgentName THEN AgentOutcome(A, FALSE)
    ELSE AgentOutcome(_save_agents([A EXCEPT !.agents =
                                       WithoutAgent(A.agents, name)], fault),
                      TRUE)

\* a dict AgentConfig(**config_dict) rejects (a field missing or unknown)
Malformed == [malformed |-> TRUE]

\* an import that stores the profile whether or not its name is taken
ImportAgentOverwriting(A, config_dict, now, fault) ==
    IF config_dict = Malformed THEN AgentOutcome(A, FALSE)
    ELSE AgentOutcome(_save_agents([A EXCEPT !.agents =
            WithAgent(A.agents, config_dict.name,
                      AgentConfig(config_dict.name, config_dict.system_prompt,
                                  config_dict.created_at, now))], fault), TRUE)

import_agent(A, config_dict, now, fault) ==
    IF config_dict = Malformed THEN AgentOutcome(A, FALSE)
    ELSE create_agent(A, AgentConfig(config_dict.name, config_dict.system_prompt,
                                     config_dict.created_at, now), fault)

\* the loop of load_presets over the items of the presets file, from item i;
\* an item is <<name, config_dict>>
RECURSIVE PresetLoop(_, _, _, _, _, _)
PresetLoop(A, presets, i, loaded_count, now, fault) ==
    IF i > Len(presets) THEN AgentOutcome(A, loaded_count)
    ELSE IF presets[i][1] \in DOMAIN A.agents
    THEN PresetLoop(A, presets, i + 1, loaded_count, now, fault)
    ELSE LET imported == import_agent(A, presets[i][2], now, fault)
         IN PresetLoop(imported.w, presets, i + 1,
                       IF imported.ret THEN loaded_count + 1 ELSE loaded_count,
                       now, fault)

\* load_presets: a missing file and a file that cannot be parsed load nothing
load_presets(A, presets_file, now, fault) ==
    IF presets_file.st # "ok" THEN AgentOutcome(A, 0)
    ELSE PresetLoop(A, presets_file.data, 1, 0, now, fault)

\* the line put between the prompt and a context that is not empty; a
\* context is a sequence of pieces of text and "" is the empty sequence
ContextHeader == "related_documents"

\* what get_system_prompt hands back: the parts of the string it returns, or
\* that reading system_prompt of None raised
Prompt(parts) == [raised |-> FALSE, parts |-> parts]
PromptRaised == [raised |-> TRUE, parts |-> <<>>]

\* a get_system_prompt that does not fall back on the default profile
GetSystemPromptOfNamed(A, name, context) ==
    IF name \notin DOMAIN A.agents THEN PromptRaised
    ELSE Prompt(<<A.agents[name].system_prompt>>
                  \o (IF context # <<>> THEN <<ContextHeader, context>>
                      ELSE <<>>))

\* AgentManager.get_system_prompt; get_agent returns None for a missing name
get_system_prompt(A, name, context) ==
    LET named == IF name \in DOMAIN A.agents THEN name ELSE DefaultAgentName
    IN IF named \notin DOMAIN A.agents THEN PromptRaised
       ELSE Prompt(<<A.agents[named].system_prompt>>
                     \o (IF context # <<>> THEN <<ContextHeader, context>>
                         ELSE <<>>))

-----------------------------------------------------------------------------
(* KnowledgeBaseManager: the query paths.  A message is a sequence of        *)
(* tokens; FailureMarker stands for the leading cross mark of the failure    *)
(* strings.  The generation service answers with the fragments of            *)
(* LLMFragments, or raises.                                                  *)

FailureMarker == "[x]"

KBMissingMsg == <<FailureMarker, "kb does not exist">>
IncompleteMsg == <<FailureMarker, "kb data incomplete">>
NoRelevantContentMsg == <<FailureMarker, "no relevant content">>
QueryFailedMsg == <<FailureMarker, "query failed">>
IndexMissingMsg == <<FailureMarker, "kb index does not exist">>
ChunksMissingMsg == <<FailureMarker, "kb chunks do not exist">>
NoRelevantDocsMsg == <<FailureMarker, "no relevant documents">>
ReferencesMsg == <<"references">>

LLMFragments == <<<<"answer-1">>, <<"answer-2">>>>
LLMAnswer == <<"answer-1", "answer-2">>

QueryFaults == {"none", "embed", "search", "generate", "generate_midstream"}

\* what a query path hands back: the messages returned or yielded, whether an
\* exception left the call, the chunks put into the prompt, the messages sent
\* to the chat service, and the calls made to the external services
Reply(out, context, effects) ==
    [out |-> out, raised |-> FALSE, context |-> context, messages |-> <<>>,
     chat_history |-> <<>>,
     effects |-> effects]

Raise(out, effects) ==
    [out |-> out, raised |-> TRUE, context |-> <<>>, messages |-> <<>>,
     chat_history |-> <<>>,
     effects |-> effects]

\* _load_vector_index / _load_chunks look under storage_path / kb_name
DirFile(st, dir, which) ==
    IF dir \in DOMAIN st
    THEN (IF which = "index" THEN st[dir].index ELSE st[dir].chunks)
    ELSE NoFile

\* a loop that takes every neighbour, whatever its score
RECURSIVE RetainedIgnoringThreshold(_, _, _)
RetainedIgnoringThreshold(chunks, results, i) ==
    IF i > Len(results) THEN [raised |-> FALSE, kept |-> <<>>]
    ELSE
      LET rest == RetainedIgnoringThreshold(chunks, results, i + 1) IN
      IF ~InRange(chunks, results[i].idx)
      THEN [raised |-> TRUE, kept |-> <<>>]
      ELSE [raised |-> rest.raised,
            kept |-> IF rest.raised THEN <<>>
                     ELSE <<[chunk |-> PyIndex(chunks, results[i].idx),
                             idx |-> results[i].idx,
                             score |-> results[i].score]>> \o rest.kept]

\* query, lines 319-323: the neighbours at or above the threshold, in search
\* order; chunks[idx] raises IndexError for a label outside the chunk list
RECURSIVE Retained(_, _, _)
Retained(chunks, results, i) ==
    IF i > Len(results) THEN [raised |-> FALSE, kept |-> <<>>]
    ELSE
      LET rest == Retained(chunks, results, i + 1) IN
      IF ScoreGE(results[i].score, similarity_threshold)
      THEN IF ~InRange(chunks, results[i].idx)
           THEN [raised |-> TRUE, kept |-> <<>>]
           ELSE [raised |-> rest.raised,
                 kept |-> IF rest.raised THEN <<>>
                          ELSE <<[chunk |-> PyIndex(chunks, results[i].idx),
                                  idx |-> results[i].idx,
                                  score |-> results[i].score]>> \o rest.kept]
      ELSE rest

\* a query that goes on to the generation with whatever it has retained
QueryTryAlwaysGenerating(W, kb_name, query_text, top_k, fault) ==
    LET index == DirFile(W.st, kb_name, "index")
        chunks == DirFile(W.st, kb_name, "chunks")
        query_vector == normalize_L2(Raw(EmbedModel(query_text)))
        results == index_search(index.data, query_vector, top_k)
        relevant == Retained(chunks.data, results, 1)
    IN
    IF index.st = "corrupt" THEN Raise(<<>>, {})
    ELSE IF chunks.st = "corrupt" THEN Raise(<<>>, {})
    ELSE IF index.st = "absent" \/ chunks.data = <<>>
         THEN Reply(<<IncompleteMsg>>, <<>>, {})
    ELSE IF fault = "embed" THEN Raise(<<>>, {"embed"})
    ELSE IF fault = "search" THEN Raise(<<>>, {"embed", "search"})
    ELSE IF relevant.raised THEN Raise(<<>>, {"embed", "search"})
    ELSE IF fault \in {"generate", "generate_midstream"}
         THEN Raise(<<>>, {"embed", "search", "generate"})
    ELSE Reply(<<LLMAnswer \o ReferencesMsg>>, relevant.kept,
               {"embed", "search", "generate"})

\* the try block of query
QueryTry(W, kb_name, query_text, top_k, fault) ==
    LET index == DirFile(W.st, kb_name, "index")
        chunks == DirFile(W.st, kb_name, "chunks")
        query_vector == normalize_L2(Raw(EmbedModel(query_text)))
        results == index_search(index.data, query_vector, top_k)
        relevant == Retained(chunks.data, results, 1)
    IN
    IF index.st = "corrupt" THEN Raise(<<>>, {})
    ELSE IF chunks.st = "corrupt" THEN Raise(<<>>, {})
    ELSE IF index.st = "absent" \/ chunks.data = <<>>
         THEN Reply(<<IncompleteMsg>>, <<>>, {})
    ELSE IF fault = "embed" THEN Raise(<<>>, {"embed"})
    ELSE IF fault = "search" THEN Raise(<<>>, {"embed", "search"})
    ELSE IF relevant.raised THEN Raise(<<>>, {"embed", "search"})
    ELSE IF relevant.kept = <<>>
         THEN Reply(<<NoRelevantContentMsg>>, <<>>, {"embed", "search"})
    ELSE IF fault \in {"generate", "generate_midstream"}
         THEN Raise(<<>>, {"embed", "search", "generate"})
    ELSE Reply(<<LLMAnswer \o ReferencesMsg>>, relevant.kept,
               {"embed", "search", "generate"})

\* a query path without its except clause
Uncaught(attempt) == attempt

\* except Exception as e: the failure is returned (yielded) as a message
\* after whatever the call has yielded so far
Caught(attempt) ==
    IF attempt.raised
    THEN [attempt EXCEPT !.raised = FALSE,
                         !.out = attempt.out \o <<QueryFailedMsg>>]
    ELSE attempt

query(W, kb_name, query_text, top_k, fault) ==
    IF kb_name \notin DOMAIN W.kbs THEN Reply(<<KBMissingMsg>>, <<>>, {})
    ELSE Caught(QueryTry(W, kb_name, query_text, top_k, fault))

\* query_stream, lines 433-436: every neighbour whose label is below
\* len(chunks) is taken, with its score; label -1 reads chunks[-1]
RECURSIVE StreamRetained(_, _, _)
StreamRetained(chunks, results, i) ==
    IF i > Len(results) THEN [raised |-> FALSE, kept |-> <<>>]
    ELSE
      LET rest == StreamRetained(chunks, results, i + 1) IN
      IF results[i].idx < Len(chunks)
      THEN IF ~InRange(chunks, results[i].idx)
           THEN [raised |-> TRUE, kept |-> <<>>]
           ELSE [raised |-> rest.raised,
                 kept |-> IF rest.raised THEN <<>>
                          ELSE <<[chunk |-> PyIndex(chunks, results[i].idx),
                                  idx |-> results[i].idx,
                                  score |-> results[i].score]>> \o rest.kept]
      ELSE rest

\* query_stream lines 385-440 (the same lines are query_stream_with_context
\* 504-559): load the artifacts from the sanitized directory, embed, search,
\* collect.  No directory of the model holds the legacy file index.faiss.
Proceed(kept) == [done |-> FALSE, reply |-> Reply(<<>>, kept, {"embed", "search"})]
Stop(reply) == [done |-> TRUE, reply |-> reply]

StreamRetrieval(W, kb_name, query_text, top_k, fault) ==
    LET safe_name == _safe_kb_name(kb_name)
        index == DirFile(W.st, safe_name, "index")
        chunks == DirFile(W.st, safe_name, "chunks")
        query_vector == Raw(EmbedModel(query_text))
        results == index_search(index.data, query_vector, top_k)
        relevant == StreamRetained(chunks.data, results, 1)
    IN
    IF index.st = "absent" THEN Stop(Reply(<<IndexMissingMsg>>, <<>>, {}))
    ELSE IF index.st = "corrupt" THEN Stop(Raise(<<>>, {}))
    ELSE IF chunks.st = "absent" THEN Stop(Reply(<<ChunksMissingMsg>>, <<>>, {}))
    ELSE IF chunks.st = "corrupt" THEN Stop(Raise(<<>>, {}))
    ELSE IF fault = "embed" THEN Stop(Raise(<<>>, {"embed"}))
    ELSE IF fault = "search" THEN Stop(Raise(<<>>, {"embed", "search"}))
    ELSE IF relevant.raised THEN Stop(Raise(<<>>, {"embed", "search"}))
    ELSE IF relevant.kept = <<>>
         THEN Stop(Reply(<<NoRelevantDocsMsg>>, <<>>, {"embed", "search"}))
    ELSE Proceed(relevant.kept)

\* lines 469-476 (590-597): the reference list, a header and one numbered
\* line per retained chunk with its source and its score
References(kept) ==
    <<"references">>
      \o [i \in 1..Len(kept) |-> <<i, kept[i].chunk.source, kept[i].score>>]

\* a streaming loop that goes on to the reference list after a failure
StreamGenerationAlwaysReferencing(kept, messages, fault) ==
    LET called == {"embed", "search", "generate"} IN
    CASE fault = "generate" ->
           [Raise(<<>>, called) EXCEPT !.messages = messages]
      [] fault = "generate_midstream" ->
           [Raise(<<LLMFragments[1], References(kept)>>, called)
               EXCEPT !.messages = messages]
      [] OTHER ->
           [Reply(LLMFragments \o <<References(kept)>>, kept, called)
               EXCEPT !.messages = messages]

\* the streaming loop and the reference list: every fragment is yielded as
\* it arrives; a failure of the stream ends the loop
StreamGeneration(kept, messages, fault) ==
    LET called == {"embed", "search", "generate"} IN
    CASE fault = "generate" ->
           [Raise(<<>>, called) EXCEPT !.messages = messages]
      [] fault = "generate_midstream" ->
           [Raise(<<LLMFragments[1]>>, called) EXCEPT !.messages = messages]
      [] OTHER ->
           [Reply(LLMFragments \o <<References(kept)>>, kept, called)
               EXCEPT !.messages = messages]

query_stream(W, kb_name, query_text, top_k, fault) ==
    IF kb_name \notin DOMAIN W.kbs THEN Reply(<<KBMissingMsg>>, <<>>, {})
    ELSE
      LET found == StreamRetrieval(W, kb_name, query_text, top_k, fault)
          prompt == <<[role |-> "user", content |-> "prompt"]>>
      IN Caught(IF found.done THEN found.reply
                ELSE StreamGeneration(found.reply.context, prompt, fault))

RecentTurns == 6

\* a trimming that keeps the first entries of the history
OldestTurns(chat_history) ==
    IF Len(chat_history) > RecentTurns
    THEN SubSeq(chat_history, 1, RecentTurns)
    ELSE chat_history

\* chat_history[-6:] if len(chat_history) > 6 else chat_history
recent_history(chat_history) ==
    IF Len(chat_history) > RecentTurns
    THEN SubSeq(chat_history, Len(chat_history) - RecentTurns + 1, Len(chat_history))
    ELSE chat_history

\* the context string of lines 562-565: the retained chunks, numbered
StreamContext(kept) == [i \in 1..Len(kept) |-> <<i, kept[i].chunk>>]

\* the prompts that hold the words looked for at line 572, and the sentence
\* appended to a system prompt that does not
HistoryPrompts == {"reviewer"}
HistoryHint == "use_history"

\* lines 568-582: the system message, the recent history, the question
ContextMessages(system_prompt, query_text, chat_history) ==
    <<[role |-> "system",
       content |-> system_prompt
                     \o (IF system_prompt[1] \in HistoryPrompts THEN <<>>
                         ELSE <<HistoryHint>>)]>>
      \o recent_history(chat_history)
      \o <<[role |-> "user", content |-> query_text]>>

\* A is the world of the manager's AgentManager; the result holds the
\* caller's chat_history list as the call leaves it
query_stream_with_context(W, A, kb_name, query_text, chat_history, top_k, agent_name, fault) ==
    LET found == StreamRetrieval(W, kb_name, query_text, top_k, fault)
        prompt == get_system_prompt(A, agent_name,
                                    StreamContext(found.reply.context))
        reply ==
          IF kb_name \notin DOMAIN W.kbs THEN Reply(<<KBMissingMsg>>, <<>>, {})
          ELSE Caught(IF found.done THEN found.reply
                      ELSE IF prompt.raised
                      THEN Raise(<<>>, found.reply.effects)
                      ELSE StreamGeneration(
                               found.reply.context,
                               ContextMessages(prompt.parts, query_text,
                                               chat_history),
                               fault))
    IN [reply EXCEPT !.chat_history = chat_history]

-----------------------------------------------------------------------------
(* Inputs *)

\* "a/b" and "a_b" are stored under the same directory a_b
KBNames == {<<"a", "/", "b">>, <<"a", "_", "b">>}
FolderPaths == {"docs", "nowhere"}
Descriptions == {"papers"}
QueryTexts == {<<"a", "b">>, <<"b">>}

\* the largest top_k asked for and the longest chat history handed in
MaxTopK == 3
MaxHistory == 7

TextFile(name, text) == [name |-> name, suffix |-> ".txt", text |-> text]
Picture == [name |-> "pic", suffix |-> ".png", text |-> <<>>]

\* what the source folder can hold: nothing at all (the folder is gone), no
\* supported file, one empty text file, one paragraph, two paragraphs that do
\* not fit one chunk
FolderStates ==
    {[exists |-> FALSE, files |-> <<>>],
     [exists |-> TRUE, files |-> <<Picture>>],
     [exists |-> TRUE, files |-> <<TextFile("blank", <<>>)>>],
     [exists |-> TRUE, files |-> <<TextFile("one", <<"a", "a", "b">>)>>],
     [exists |-> TRUE,
      files |-> <<Picture,
                  TextFile("two", <<"a", "a", "b", NL, NL, "b", "b">>)>>]}

\* the agent a conversation names: a registered one, or one that is not
AgentChoices == {"coder", UnknownAgentName}

Turn(i) ==
    [role |-> IF i % 2 = 1 THEN "user" ELSE "assistant", content |-> <<"turn", i>>]
History(n) == [i \in 1..n |-> Turn(i)]

-----------------------------------------------------------------------------
(* State machine *)

NoInfo == KnowledgeBaseInfo(<<>>, "", "", <<>>, <<>>)
NotUpdating == [active |-> FALSE, kb_name |-> <<>>, kb_info |-> NoInfo]

NoFolder == [exists |-> FALSE, files |-> <<>>]
NoWorld == [kbs |-> NoRegistry, file |-> NoFile, st |-> NoRegistry]

\* the record of a call: its arguments, what the environment did during it
\* (the folder read, the fault), the world before it, and its result
Call(op, kb_name) ==
    [op |-> op, kb_name |-> kb_name, folder_path |-> "", folder |-> NoFolder,
     description |-> "", fault |-> <<"none", "none">>,
     query_text |-> <<>>, top_k |-> 0, chat_history |-> <<>>,
     agent_name |-> "", history_after |-> <<>>,
     before |-> World,
     ret |-> FALSE, raised |-> FALSE, out |-> <<>>, context |-> <<>>,
     messages |-> <<>>, effects |-> {}]

Ended(made, done) ==
    [made EXCEPT !.ret = done.ret, !.raised = done.raised,
                 !.effects = done.effects]

Answered(made, reply) ==
    [made EXCEPT !.raised = reply.raised, !.out = reply.out,
                 !.context = reply.context, !.messages = reply.messages,
                 !.history_after = reply.chat_history,
                 !.effects = reply.effects]

NoCall == [Call("none", <<>>) EXCEPT !.before = NoWorld]

\* an update in which at most one step fails
UpdateFaults ==
    {<<d, "none">> : d \in DeleteFaults} \cup {<<"none", c>> : c \in CreateFaults}

Commit(W) ==
    /\ knowledge_bases' = W.kbs
    /\ index_file' = W.file
    /\ storage' = W.st

\* the single caller makes a call once it has taken the result of the last one
Ready == last.op = "none" /\ ~updating.active

\* the manager makes no call of its own
NoPureCall == [fn |-> "none", done |-> TRUE]

\* KnowledgeBaseManager.__init__ constructs its AgentManager on an empty
\* path and loads the bundled presets file into it
BundledPresets ==
    FileOf(<<<<"coder", [name |-> "coder", system_prompt |-> "reviewer",
                         created_at |-> ""]>>>>)

ManagerAgents ==
    load_presets(AgentManagerInit(NoFile, "t1", "none"), BundledPresets,
                 "t1", "none").w

AgentsConstructed ==
    agents = ManagerAgents.agents /\ config_file = ManagerAgents.file

Init ==
    /\ knowledge_bases = NoRegistry
    /\ index_file = NoFile
    /\ storage = NoRegistry
    /\ updating = NotUpdating
    /\ last = NoCall
    /\ call = NoPureCall
    /\ AgentsConstructed

\* the source folder is read when the call is made: F is what it holds then
CreateKB ==
    \E name \in KBNames, folder_path \in FolderPaths, F \in FolderStates,
       description \in Descriptions, fault \in CreateFaults :
        LET done == create_knowledge_base(World, F, name, folder_path,
                                          description, fault)
        IN /\ Ready
           /\ Commit(done.w)
           /\ last' = Ended([Call("create", name) EXCEPT
                               !.folder_path = folder_path, !.folder = F,
                               !.description = description,
                               !.fault = <<"none", fault>>], done)
           /\ UNCHANGED <<updating, call, agents, config_file>>

DeleteKB ==
    \E kb_name \in KBNames, fault \in DeleteFaults :
        LET done == delete_knowledge_base(World, kb_name, fault)
        IN /\ Ready
           /\ Commit(done.w)
           /\ last' = Ended([Call("delete", kb_name) EXCEPT
                               !.fault = <<fault, "none">>], done)
           /\ UNCHANGED <<updating, call, agents, config_file>>

UpdateKB ==
    \E kb_name \in KBNames, F \in FolderStates, faults \in UpdateFaults :
        LET done == update_knowledge_base(World, F, kb_name,
                                          faults[1], faults[2])
        IN /\ Ready
           /\ Commit(done.w)
           /\ last' = Ended([Call("update", kb_name) EXCEPT
                               !.folder = F, !.fault = faults], done)
           /\ UNCHANGED <<updating, call, agents, config_file>>

Asked(op, kb_name, query_text, top_k, fault) ==
    [Call(op, kb_name) EXCEPT !.query_text = query_text, !.top_k = top_k,
                              !.fault = <<"none", fault>>]

Query ==
    \E kb_name \in KBNames, query_text \in QueryTexts, top_k \in 1..MaxTopK,
       fault \in QueryFaults :
        /\ Ready
        /\ last' = Answered(Asked("query", kb_name, query_text, top_k, fault),
                        query(World, kb_name, query_text, top_k, fault))
        /\ UNCHANGED <<knowledge_bases, index_file, storage, updating, call,
                       agents, config_file>>

QueryStream ==
    \E kb_name \in KBNames, query_text \in QueryTexts, top_k \in 1..MaxTopK,
       fault \in QueryFaults :
        /\ Ready
        /\ last' = Answered(Asked("query_stream", kb_name, query_text, top_k, fault),
                        query_stream(World, kb_name, query_text, top_k, fault))
        /\ UNCHANGED <<knowledge_bases, index_file, storage, updating, call,
                       agents, config_file>>

QueryStreamWithContext ==
    \E kb_name \in KBNames, query_text \in QueryTexts, top_k \in 1..MaxTopK,
       n \in {0, MaxHistory}, agent_name \in AgentChoices,
       fault \in QueryFaults :
        /\ Ready
        /\ last' = Answered([Asked("query_stream_with_context", kb_name,
                                   query_text, top_k, fault)
                               EXCEPT !.chat_history = History(n),
                                      !.agent_name = agent_name],
                        query_stream_with_context(World, AgentWorld, kb_name,
                                                  query_text, History(n), top_k,
                                                  agent_name, fault))
        /\ UNCHANGED <<knowledge_bases, index_file, storage, updating, call,
                       agents, config_file>>

\* the caller takes the result
Return ==
    /\ last.op # "none"
    /\ ~updating.active
    /\ last' = NoCall
    /\ UNCHANGED <<knowledge_bases, index_file, storage, updating, call,
                   agents, config_file>>

Next ==
    \/ CreateKB
    \/ DeleteKB
    \/ UpdateKB
    \/ Query
    \/ QueryStream
    \/ QueryStreamWithContext
    \/ Return

Spec == Init /\ [][Next]_vars

\* update_knowledge_base in its two calls: the registry as it stands between
\* the delete and the create is a state of SpecUpdate
UpdateDelete ==
    \E kb_name \in KBNames, fault \in DeleteFaults :
        LET done == delete_knowledge_base(World, kb_name, fault)
        IN /\ Ready
           /\ kb_name \in DOMAIN knowledge_bases
           /\ Commit(done.w)
           /\ updating' = [active |-> TRUE, kb_name |-> kb_name,
                           kb_info |-> knowledge_bases[kb_name]]
           /\ last' = [Call("update", kb_name) EXCEPT
                         !.fault = <<fault, "none">>, !.effects = done.effects]
           /\ UNCHANGED <<call, agents, config_file>>

UpdateCreate ==
    \E F \in FolderStates, fault \in CreateFaults :
        LET done == UpdateRecreate(World, F, updating.kb_name,
                                   updating.kb_info, fault)
        IN /\ updating.active
           /\ Commit(done.w)
           /\ updating' = NotUpdating
           /\ last' = Ended([last EXCEPT !.folder = F,
                                         !.fault = <<last.fault[1], fault>>],
                            [done EXCEPT !.effects = last.effects \cup done.effects])
           /\ UNCHANGED <<call, agents, config_file>>

\* update_knowledge_base on a name that is not registered
UpdateUnknown ==
    \E kb_name \in KBNames :
        /\ Ready
        /\ kb_name \notin DOMAIN knowledge_bases
        /\ last' = Call("update", kb_name)
        /\ UNCHANGED <<knowledge_bases, index_file, storage, updating, call,
                       agents, config_file>>

NextUpdate ==
    \/ CreateKB
    \/ DeleteKB
    \/ UpdateDelete
    \/ UpdateCreate
    \/ UpdateUnknown
    \/ Return

SpecUpdate == Init /\ [][NextUpdate]_vars

-----------------------------------------------------------------------------
(* DocumentProcessor.chunk_documents on one text file: every text over       *)
(* Alphabet of at most MaxDocLen characters.                                 *)

Alphabet == {"a", "b", NL}
MaxDocLen == 10
Texts == UNION {[1..k -> Alphabet] : k \in 0..MaxDocLen}

ManagerIdle ==
    /\ knowledge_bases = NoRegistry
    /\ index_file = NoFile
    /\ storage = NoRegistry
    /\ updating = NotUpdating
    /\ last = NoCall
    /\ AgentsConstructed

InitChunk ==
    /\ ManagerIdle
    /\ call \in {[fn |-> "chunk_documents", done |-> FALSE,
                  document |-> process_file(TextFile("d", text)),
                  chunks |-> <<>>] : text \in Texts}

ChunkDocuments ==
    /\ call.fn = "chunk_documents"
    /\ ~call.done
    /\ call' = [call EXCEPT !.done = TRUE,
                            !.chunks = chunk_documents(<<call.document>>)]
    /\ UNCHANGED <<knowledge_bases, index_file, storage, updating, last,
                   agents, config_file>>

NextChunk == ChunkDocuments

SpecChunk == InitChunk /\ [][NextChunk]_vars

-----------------------------------------------------------------------------
(* The embedding client on its own: one call of embed_texts or of
   find_most_similar on drawn inputs, and the manager's create_knowledge_base,
   which is the caller of embed_texts *)

MaxTexts == 5
MaxCandidates == 3

EmbedTextsOf == {<<"a">>, <<"b">>}
TextLists == UNION {[1..k -> EmbedTextsOf] : k \in 0..MaxTexts}

\* the number of provider calls a list takes when none fails, plus one
MaxProviderCalls == (MaxTexts + batch_size - 1) \div batch_size + 1

Embeddings == {<<0, 0>>, <<1, 0>>, <<0, 1>>, <<1, 1>>, <<-1, 0>>}
CandidateLists == UNION {[1..k -> Embeddings] : k \in 0..MaxCandidates}

EmbedCalls ==
    {[fn |-> "embed_texts", done |-> FALSE, texts |-> texts,
      provider |-> configured, failing_call |-> k,
      result |-> Embedded(0, <<>>)] :
        texts \in TextLists, configured \in Providers,
        k \in 0..MaxProviderCalls}

SimilarCalls ==
    {[fn |-> "find_most_similar", done |-> FALSE, query_embedding |-> q,
      candidate_embeddings |-> c, top_k |-> k, result |-> <<>>] :
        q \in Embeddings, c \in CandidateLists, k \in -1..(MaxCandidates + 1)}

InitEmbed ==
    /\ ManagerIdle
    /\ call \in {NoPureCall} \cup EmbedCalls \cup SimilarCalls

EmbedTexts ==
    /\ call.fn = "embed_texts"
    /\ ~call.done
    /\ call' = [call EXCEPT !.done = TRUE,
                            !.result = embed_texts(call.texts, call.provider,
                                                   call.failing_call)]
    /\ UNCHANGED <<knowledge_bases, index_file, storage, updating, last,
                   agents, config_file>>

FindMostSimilar ==
    /\ call.fn = "find_most_similar"
    /\ ~call.done
    /\ call' = [call EXCEPT !.done = TRUE,
                            !.result = find_most_similar(call.query_embedding,
                                                         call.candidate_embeddings,
                                                         call.top_k)]
    /\ UNCHANGED <<knowledge_bases, index_file, storage, updating, last,
                   agents, config_file>>

\* the manager's own client is used by its calls only
ManagerCreates == call = NoPureCall /\ CreateKB
ManagerReturns == call = NoPureCall /\ Return

NextEmbed == EmbedTexts \/ FindMostSimilar \/ ManagerCreates \/ ManagerReturns

SpecEmbed == InitEmbed /\ [][NextEmbed]_vars

-----------------------------------------------------------------------------
(* Two threads in create_knowledge_base on one manager.  A thread takes one
   step for each statement that reads or writes the registry, the registry
   file or the storage directory; call.threads holds each thread's position
   and local variables, call.log the steps in the order they were taken. *)

Threads == {1, 2}

\* source folders whose documents give chunks
RaceFolders ==
    {F \in FolderStates : chunk_documents(process_folder(F.files)) # <<>>}

Thread(name, F) ==
    [pc |-> "check", name |-> name, folder |-> F, documents |-> <<>>,
     chunks |-> <<>>, vectors |-> <<>>, ret |-> FALSE]

InitRace ==
    /\ knowledge_bases = NoRegistry
    /\ index_file = NoFile
    /\ storage = NoRegistry
    /\ updating = NotUpdating
    /\ last = NoCall
    /\ AgentsConstructed
    /\ \E names \in [Threads -> KBNames], folders \in [Threads -> RaceFolders] :
          call = [fn |-> "create_knowledge_base", done |-> FALSE,
                  threads |-> [t \in Threads |-> Thread(names[t], folders[t])],
                  log |-> <<>>]

\* thread t takes the step it is at and goes to pc
Step(t, pc, thread) ==
    call' = [call EXCEPT !.threads[t] = [thread EXCEPT !.pc = pc],
                         !.log = Append(@, <<t, call.threads[t].pc>>),
                         !.done = \A u \in Threads \ {t} :
                                      call.threads[u].pc = "done"]

At(t, pc) == call.fn = "create_knowledge_base" /\ call.threads[t].pc = pc

\* lines 133-140: the test for a registered name (the folder exists)
RaceCheck ==
    \E t \in Threads :
        LET thread == call.threads[t] IN
        /\ At(t, "check")
        /\ IF thread.name \in DOMAIN knowledge_bases
           THEN Step(t, "done", thread)
           ELSE call' = [call EXCEPT !.threads[t].pc = "ingest",
                                     !.log = Append(@, <<t, "check">>)]
        /\ UNCHANGED <<knowledge_bases, index_file, storage, updating, last,
                       agents, config_file>>

\* lines 146-169: the directory, the documents, the chunks, the embeddings
RaceIngest ==
    \E t \in Threads :
        LET thread == call.threads[t]
            documents == process_folder(thread.folder.files)
            chunks == chunk_documents(documents)
            embedded == embed_texts([i \in 1..Len(chunks) |-> chunks[i].content],
                                    provider, 0)
        IN /\ At(t, "ingest")
           /\ storage' = Mkdir(storage, _safe_kb_name(thread.name))
           /\ call' = [call EXCEPT
                         !.threads[t] = [thread EXCEPT
                                           !.pc = "build_index",
                                           !.documents = documents,
                                           !.chunks = chunks,
                                           !.vectors = embedded.vectors],
                         !.log = Append(@, <<t, "ingest">>)]
           /\ UNCHANGED <<knowledge_bases, index_file, updating, last,
                          agents, config_file>>

\* line 173
RaceBuildIndex ==
    \E t \in Threads :
        LET thread == call.threads[t] IN
        /\ At(t, "build_index")
        /\ storage' = _build_vector_index(storage, _safe_kb_name(thread.name),
                                          thread.vectors, "none")
        /\ call' = [call EXCEPT !.threads[t].pc = "save_chunks",
                                !.log = Append(@, <<t, "build_index">>)]
        /\ UNCHANGED <<knowledge_bases, index_file, updating, last,
                       agents, config_file>>

\* line 176
RaceSaveChunks ==
    \E t \in Threads :
        LET thread == call.threads[t] IN
        /\ At(t, "save_chunks")
        /\ storage' = _save_chunks(storage, _safe_kb_name(thread.name),
                                   thread.chunks, "none")
        /\ call' = [call EXCEPT !.threads[t].pc = "register",
                                !.log = Append(@, <<t, "save_chunks">>)]
        /\ UNCHANGED <<knowledge_bases, index_file, updating, last,
                       agents, config_file>>

\* the info a thread registers
RaceInfo(thread) ==
    KnowledgeBaseInfo(thread.name, "papers", "docs", thread.documents,
                      thread.chunks)

\* lines 179-189
RaceRegister ==
    \E t \in Threads :
        LET thread == call.threads[t] IN
        /\ At(t, "register")
        /\ knowledge_bases' = Register(knowledge_bases, thread.name,
                                       RaceInfo(thread))
        /\ call' = [call EXCEPT !.threads[t].pc = "save_registry",
                                !.log = Append(@, <<t, "register">>)]
        /\ UNCHANGED <<index_file, storage, updating, last,
                       agents, config_file>>

\* lines 190-195: the registry as it is now is written, and True is returned
RaceSaveRegistry ==
    \E t \in Threads :
        LET thread == call.threads[t] IN
        /\ At(t, "save_registry")
        /\ index_file' = _save_knowledge_bases_index(World, "none").file
        /\ Step(t, "done", [thread EXCEPT !.ret = TRUE])
        /\ UNCHANGED <<knowledge_bases, storage, updating, last,
                       agents, config_file>>

NextRace ==
    \/ RaceCheck
    \/ RaceIngest
    \/ RaceBuildIndex
    \/ RaceSaveChunks
    \/ RaceRegister
    \/ RaceSaveRegistry

SpecRace == InitRace /\ [][NextRace]_vars

-----------------------------------------------------------------------------
(* Inputs of the agent manager's calls *)

Contexts == {<<>>, <<"doc">>}

Configs ==
    {AgentConfig(name, system_prompt, created_at, now) :
        name \in AgentNames, system_prompt \in Prompts,
        created_at \in Times \cup {""}, now \in Times}

ConfigDicts ==
    {Malformed} \cup
    {[name |-> name, system_prompt |-> "reviewer", created_at |-> ""] :
        name \in AgentNames}

PresetItems == {<<name, config_dict>> : name \in AgentNames,
                                        config_dict \in ConfigDicts}

\* the items of a JSON object have distinct names
PresetLists ==
    {<<>>} \cup {<<item>> : item \in PresetItems}
           \cup {items \in PresetItems \X PresetItems :
                   items[1][1] # items[2][1]}

PresetFiles == {NoFile, CorruptFile} \cup {FileOf(presets) : presets \in PresetLists}

AgentOps == {"create_agent", "update_agent", "delete_agent", "import_agent",
             "load_presets", "__init__", "get_system_prompt"}

\* the call that has just ended: its arguments, what it returned and the
\* registry it was made on
AgentCall(fn, name, ret) ==
    [fn |-> fn, done |-> TRUE, name |-> name, ret |-> ret, before |-> agents,
     presets_file |-> NoFile, context |-> <<>>]

AgentCommit(A) == agents' = A.agents /\ config_file' = A.file

KnowledgeBasesUntouched ==
    UNCHANGED <<knowledge_bases, index_file, storage, updating, last>>

\* the state after AgentManager(storage_path) on an empty storage path
InitAgent ==
    /\ knowledge_bases = NoRegistry
    /\ index_file = NoFile
    /\ storage = NoRegistry
    /\ updating = NotUpdating
    /\ last = NoCall
    /\ call = NoPureCall
    /\ \E now \in Times, fault \in WriteFaults :
          LET A == AgentManagerInit(NoFile, now, fault)
          IN agents = A.agents /\ config_file = A.file

\* the config a caller passes: an object it has constructed, or one that
\* get_agent has handed to it
Passed == Configs \cup {agents[n] : n \in DOMAIN agents}

CreateAgent ==
    \E config \in Passed, fault \in WriteFaults :
        LET done == create_agent(AgentWorld, config, fault)
        IN /\ call = NoPureCall
           /\ AgentCommit(done.w)
           /\ call' = AgentCall("create_agent", config.name, done.ret)
           /\ KnowledgeBasesUntouched

UpdateAgent ==
    \E name \in AgentNames, config \in Passed, now \in Times,
       fault \in WriteFaults :
        LET done == update_agent(AgentWorld, name, config, now, fault)
        IN /\ call = NoPureCall
           /\ AgentCommit(done.w)
           /\ call' = AgentCall("update_agent", name, done.ret)
           /\ KnowledgeBasesUntouched

DeleteAgent ==
    \E name \in AgentNames, fault \in WriteFaults :
        LET done == delete_agent(AgentWorld, name, fault)
        IN /\ call = NoPureCall
           /\ AgentCommit(done.w)
           /\ call' = AgentCall("delete_agent", name, done.ret)
           /\ KnowledgeBasesUntouched

ImportAgent ==
    \E config_dict \in ConfigDicts, now \in Times, fault \in WriteFaults :
        LET done == import_agent(AgentWorld, config_dict, now, fault)
        IN /\ call = NoPureCall
           /\ AgentCommit(done.w)
           /\ call' = AgentCall("import_agent",
                                IF config_dict = Malformed THEN ""
                                ELSE config_dict.name, done.ret)
           /\ KnowledgeBasesUntouched

LoadPresets ==
    \E presets_file \in PresetFiles, now \in Times, fault \in WriteFaults :
        LET done == load_presets(AgentWorld, presets_file, now, fault)
        IN /\ call = NoPureCall
           /\ AgentCommit(done.w)
           /\ call' = [AgentCall("load_presets", "", done.ret)
                          EXCEPT !.presets_file = presets_file]
           /\ KnowledgeBasesUntouched

\* the process ends and a new AgentManager is constructed on the same path
Restart ==
    \E now \in Times, fault \in WriteFaults :
        /\ call = NoPureCall
        /\ AgentCommit(AgentManagerInit(config_file, now, fault))
        /\ call' = AgentCall("__init__", "", TRUE)
        /\ KnowledgeBasesUntouched

GetSystemPrompt ==
    \E name \in AgentNames \cup {UnknownAgentName}, context \in Contexts :
        /\ call = NoPureCall
        /\ call' = [AgentCall("get_system_prompt", name,
                              get_system_prompt(AgentWorld, name, context))
                       EXCEPT !.context = context]
        /\ UNCHANGED <<agents, config_file>>
        /\ KnowledgeBasesUntouched

AgentReturn ==
    /\ call.fn \in AgentOps
    /\ call' = NoPureCall
    /\ UNCHANGED <<agents, config_file>>
    /\ KnowledgeBasesUntouched

NextAgent ==
    \/ CreateAgent
    \/ UpdateAgent
    \/ DeleteAgent
    \/ ImportAgent
    \/ LoadPresets
    \/ GetSystemPrompt
    \/ Restart
    \/ AgentReturn

SpecAgent == InitAgent /\ [][NextAgent]_vars

-----------------------------------------------------------------------------
(* Properties.  A state in which last.op is not "none" is the state right    *)
(* after a call: last holds its arguments, the world before it (last.before) *)
(* and its result.                                                           *)

StorageDir(kb_name) == _safe_kb_name(kb_name)
IndexFileOf(st, kb_name) == DirFile(st, StorageDir(kb_name), "index")
ChunkFileOf(st, kb_name) == DirFile(st, StorageDir(kb_name), "chunks")

\* C1: after any sequence of create / delete / update calls, every registered
\* name has both its vector index file and its chunk file in its storage
\* directory.
C1_RegisteredHaveBothFiles ==
    \A n \in DOMAIN knowledge_bases :
        /\ IndexFileOf(storage, n).st # "absent"
        /\ ChunkFileOf(storage, n).st # "absent"

\* the info create_knowledge_base registers for name from the folder content F
RebuiltInfo(old, F) ==
    KnowledgeBaseInfo(old.name, old.description, old.folder_path,
                      process_folder(F.files),
                      chunk_documents(process_folder(F.files)))

DeleteThenCreate ==
    LET n == last.kb_name
        old == last.before.kbs[n]
        deletion == delete_knowledge_base(last.before, n, last.fault[1])
    IN [deleted |-> deletion.ret,
        creation |-> create_knowledge_base(deletion.w, last.folder, n,
                                           old.folder_path, old.description,
                                           last.fault[2])]

UpdatedRegistered == last.op = "update" /\ last.kb_name \in DOMAIN last.before.kbs

ArtifactsGone(st, kb_name) ==
    /\ IndexFileOf(st, kb_name).st = "absent"
    /\ ChunkFileOf(st, kb_name).st = "absent"

\* C3 (as stated): update of a registered name returns what delete followed
\* by create returns and leaves the same registry and storage; when the
\* rebuild fails after the delete succeeded, update returns False, the name
\* is no longer registered and its artifacts are gone.
C3_UpdateLeavesNoArtifacts ==
    UpdatedRegistered =>
        /\ World = DeleteThenCreate.creation.w
        /\ last.ret = DeleteThenCreate.creation.ret
        /\ (DeleteThenCreate.deleted /\ ~DeleteThenCreate.creation.ret) =>
             /\ ~last.ret
             /\ last.kb_name \notin DOMAIN knowledge_bases
             /\ ArtifactsGone(storage, last.kb_name)

\* C3 (amended): update of a registered name returns what delete followed by
\* create returns and leaves the same registry and storage; when the rebuild
\* fails after the delete succeeded, update returns False, the name is no
\* longer registered, and its storage directory holds exactly what the failed
\* create left behind.
C3_UpdateIsDeleteThenCreate ==
    UpdatedRegistered =>
        /\ World = DeleteThenCreate.creation.w
        /\ last.ret = DeleteThenCreate.creation.ret
        /\ (DeleteThenCreate.deleted /\ ~DeleteThenCreate.creation.ret) =>
             /\ ~last.ret
             /\ last.kb_name \notin DOMAIN knowledge_bases
             /\ storage = DeleteThenCreate.creation.w.st

\* an update whose delete succeeded and whose rebuild failed in a file write
C3_Witness ==
    /\ UpdatedRegistered
    /\ "unregister" \in last.effects
    /\ "write_index" \in last.effects
    /\ ~last.ret

StreamOps == {"query_stream", "query_stream_with_context"}

NormalizedQuery == normalize_L2(Raw(EmbedModel(last.query_text)))

\* the chunks query's retrieval (lines 310-323) retains from the artifacts of
\* the knowledge base asked
QueryRetained ==
    Retained(ChunkFileOf(storage, last.kb_name).data,
             index_search(IndexFileOf(storage, last.kb_name).data,
                          NormalizedQuery, last.top_k),
             1).kept

ChunksOf(kept) == [p \in DOMAIN kept |-> kept[p].chunk]

\* C4: the streaming queries retain exactly the chunks query's retrieval
\* retains, and never put a chunk whose cosine score is below the similarity
\* threshold into the prompt.
C4_StreamRetrievalIsQueryRetrieval ==
    (last.op \in StreamOps /\ "search" \in last.effects
       /\ last.fault[2] = "none") =>
        /\ ChunksOf(last.context) = ChunksOf(QueryRetained)
        /\ \A p \in DOMAIN last.context :
             ScoreGE(InnerProduct(
                       IndexFileOf(storage, last.kb_name).data[last.context[p].idx + 1],
                       NormalizedQuery),
                     similarity_threshold)

\* C5: create_knowledge_base on a folder path that does not exist, or on a
\* folder without any supported document, returns False (nothing else failing
\* during the call) and leaves the registry, the registry file and the storage root as they were.
C5_FailedCreateChangesNothing ==
    (last.op = "create" /\ last.fault[2] = "none"
       /\ (\/ ~FolderExists(last.folder, last.folder_path)
           \/ process_folder(last.folder.files) = <<>>)) =>
        /\ ~last.ret
        /\ World = last.before

\* C6: create_knowledge_base with a name that is already registered returns
\* False and changes nothing: registry, registry file and every file of the
\* storage root are as before, and no folder scan, chunking, embedding or
\* file write is made.
C6_CreateExistingChangesNothing ==
    (last.op = "create" /\ last.kb_name \in DOMAIN last.before.kbs) =>
        /\ ~last.ret
        /\ ~last.raised
        /\ World = last.before
        /\ last.effects = {}

\* a create on a registered name whose folder holds new content
C6_Witness ==
    /\ last.op = "create"
    /\ last.kb_name \in DOMAIN last.before.kbs
    /\ FolderExists(last.folder, last.folder_path)
    /\ RebuiltInfo(last.before.kbs[last.kb_name], last.folder)
         # last.before.kbs[last.kb_name]

\* C7: a create for a name that was not registered either returns True and
\* registers the info, or returns False without raising and leaves the name
\* out of the registry; the registry entries of the other names are as before.
C7_FailedIngestionNotRegistered ==
    (last.op = "create" /\ last.kb_name \notin DOMAIN last.before.kbs) =>
        /\ ~last.raised
        /\ last.ret <=> last.kb_name \in DOMAIN knowledge_bases
        /\ ~last.ret => knowledge_bases = last.before.kbs
        /\ last.ret =>
             /\ "register" \in last.effects
             /\ knowledge_bases[last.kb_name]
                  = KnowledgeBaseInfo(last.kb_name, last.description,
                        last.folder_path, process_folder(last.folder.files),
                        chunk_documents(process_folder(last.folder.files)))
        /\ \A n \in DOMAIN last.before.kbs :
             n \in DOMAIN knowledge_bases /\ knowledge_bases[n] = last.before.kbs[n]

\* an ingestion that failed in the chunk write, after the index was written
C7_Witness ==
    /\ last.op = "create"
    /\ last.kb_name \notin DOMAIN last.before.kbs
    /\ last.fault[2] = "write_chunks"
    /\ "write_chunks" \in last.effects
    /\ ~last.ret

\* the artifacts query loads: storage_path / kb_name / ...
QueryIndex == DirFile(storage, last.kb_name, "index").data
QueryChunks == DirFile(storage, last.kb_name, "chunks").data
Cosine(i) == InnerProduct(QueryIndex[i], NormalizedQuery)
AtThreshold(i) == ScoreGE(Cosine(i), similarity_threshold)

\* C8: the chunks query hands to the generation are those of the top_k nearest
\* rows of the index that score at or above the threshold, best first: at most
\* top_k chunks, none below the threshold, and a row at or above the threshold
\* is left out only when top_k rows at least as near are used.
C8_QueryContextIsThresholdedTopK ==
    (last.op = "query" /\ "generate" \in last.effects
       /\ last.fault[2] = "none") =>
        LET used == last.context
            rows == {used[p].idx + 1 : p \in DOMAIN used}
        IN /\ Len(used) <= last.top_k
           /\ \A p \in DOMAIN used :
                /\ used[p].idx + 1 \in DOMAIN QueryIndex
                /\ used[p].chunk = QueryChunks[used[p].idx + 1]
                /\ AtThreshold(used[p].idx + 1)
           /\ \A p, q \in DOMAIN used :
                p < q => /\ used[p].idx # used[q].idx
                         /\ ScoreGE(Cosine(used[p].idx + 1), Cosine(used[q].idx + 1))
           /\ \A i \in DOMAIN QueryIndex \ rows :
                AtThreshold(i) =>
                  /\ Len(used) = last.top_k
                  /\ \A p \in DOMAIN used : ScoreGE(Cosine(used[p].idx + 1), Cosine(i))

\* a query with top_k >= 2 on an index of two rows that used one chunk only:
\* the other neighbour scored below the threshold
C8_Witness ==
    /\ last.op = "query"
    /\ last.top_k >= 2
    /\ Len(QueryIndex) = 2
    /\ Len(last.context) = 1
    /\ ~AtThreshold(1)

\* C9: when no retrieved score reaches the threshold, query answers "no
\* relevant content" and does not call the generation service; the generation
\* service is called only when some row reaches the threshold.
C9_NoGenerationBelowThreshold ==
    last.op = "query" =>
        LET searched == /\ "search" \in last.effects
                        /\ last.fault[2] \notin {"embed", "search"}
            all_below == \A i \in DOMAIN QueryIndex : ~AtThreshold(i)
        IN /\ (searched /\ all_below) =>
                /\ last.out = <<NoRelevantContentMsg>>
                /\ "generate" \notin last.effects
           /\ "generate" \in last.effects =>
                \E i \in DOMAIN QueryIndex : AtThreshold(i)

\* a query whose only neighbour scored below the threshold
C9_Witness ==
    /\ last.op = "query"
    /\ "search" \in last.effects
    /\ QueryIndex # <<>>
    /\ \A i \in DOMAIN QueryIndex : ~AtThreshold(i)
    /\ last.out = <<NoRelevantContentMsg>>

QueryOps == {"query", "query_stream", "query_stream_with_context"}

BeginsWithMarker(message) == message # <<>> /\ Head(message) = FailureMarker

\* the failures of a query call: the name is unknown, an artifact of the
\* knowledge base is missing or cannot be loaded, or a service called failed
QueryFailure ==
    \/ last.kb_name \notin DOMAIN knowledge_bases
    \/ IndexFileOf(storage, last.kb_name).st # "ok"
    \/ ChunkFileOf(storage, last.kb_name).st # "ok"
    \/ last.fault[2] = "embed" /\ "embed" \in last.effects
    \/ last.fault[2] = "search" /\ "search" \in last.effects
    \/ last.fault[2] \in {"generate", "generate_midstream"}
         /\ "generate" \in last.effects

\* C10: no exception leaves query, query_stream or query_stream_with_context;
\* every failure ends the call with a message that begins with the failure
\* marker.
C10_QueryFailuresAreMessages ==
    last.op \in QueryOps =>
        /\ ~last.raised
        /\ last.out # <<>>
        /\ QueryFailure => BeginsWithMarker(last.out[Len(last.out)])

\* a stream that failed after its first fragment
C10_Witness ==
    /\ last.op \in StreamOps
    /\ last.fault[2] = "generate_midstream"
    /\ Len(last.out) = 2
    /\ BeginsWithMarker(last.out[2])

\* what _load_knowledge_bases_index makes of the registry file: a file that
\* is missing or cannot be parsed gives the empty registry
PersistedRegistry(file) == IF file.st = "ok" THEN file.data ELSE NoRegistry

\* C11: a delete that returned True has removed the storage directory of the
\* name and its entry from the registry in memory and from the registry
\* file; a query for the name reports an unknown knowledge base; the entries
\* of the other names, in memory and in the file, are as in memory before.
C11_DeleteRemovesEverywhere ==
    (last.op = "delete" /\ last.ret) =>
        LET n == last.kb_name
            others == DOMAIN last.before.kbs \ {n}
        IN /\ StorageDir(n) \notin DOMAIN storage
           /\ n \notin DOMAIN knowledge_bases
           /\ DOMAIN knowledge_bases = others
           /\ \A m \in others : knowledge_bases[m] = last.before.kbs[m]
           /\ \A q \in QueryTexts :
                query(World, n, q, 1, "none").out = <<KBMissingMsg>>
           /\ n \notin DOMAIN PersistedRegistry(index_file)
           /\ DOMAIN PersistedRegistry(index_file) = others
           /\ \A m \in others :
                PersistedRegistry(index_file)[m] = last.before.kbs[m]

\* C12: a delete of a name that is not registered returns False without
\* raising and leaves the registry, the registry file and the storage root
\* as they were; nothing is removed.
C12_DeleteUnknownIsNoOp ==
    (last.op = "delete" /\ last.kb_name \notin DOMAIN last.before.kbs) =>
        /\ ~last.ret
        /\ ~last.raised
        /\ World = last.before
        /\ last.effects = {}

\* a delete of an unregistered name whose sanitized directory exists
C12_Witness ==
    /\ last.op = "delete"
    /\ last.kb_name \notin DOMAIN last.before.kbs
    /\ StorageDir(last.kb_name) \in DOMAIN last.before.st

Chunked == call.fn = "chunk_documents" /\ call.done

\* the paragraphs the chunker takes from a document: the pieces between
\* blank-line separators, stripped, the empty ones left out
RECURSIVE NonEmptyStripped(_)
NonEmptyStripped(pieces) ==
    IF pieces = <<>> THEN <<>>
    ELSE IF Strip(Head(pieces)) = <<>> THEN NonEmptyStripped(Tail(pieces))
    ELSE <<Strip(Head(pieces))>> \o NonEmptyStripped(Tail(pieces))

ParagraphsOf(document) ==
    NonEmptyStripped(SplitParagraphs(document.content, <<>>))

\* the paragraphs joined by the blank-line separator
RECURSIVE JoinParagraphs(_)
JoinParagraphs(paragraphs) ==
    IF paragraphs = <<>> THEN <<>>
    ELSE IF Len(paragraphs) = 1 THEN paragraphs[1]
    ELSE paragraphs[1] \o <<NL, NL>> \o JoinParagraphs(Tail(paragraphs))

\* s[n:]
DropPrefix(s, n) == SubSeq(s, n + 1, Len(s))

\* the first chunk, then every later chunk without its first chunk_overlap
\* characters
RECURSIVE Reassembled(_, _)
Reassembled(chunks, k) ==
    IF k > Len(chunks) THEN <<>>
    ELSE (IF k = 1 THEN chunks[k].content
          ELSE DropPrefix(chunks[k].content, chunk_overlap))
           \o Reassembled(chunks, k + 1)

\* C13: the chunk contents of a document in chunk_index order, each chunk
\* after the first without its first chunk_overlap characters, concatenate to
\* the paragraphs of the document joined by blank lines.
C13_ChunksReassembleDocument ==
    Chunked =>
        Reassembled(call.chunks, 1) = JoinParagraphs(ParagraphsOf(call.document))

\* C14: when no paragraph of a document is longer than chunk_size, no chunk
\* is longer than chunk_size + chunk_overlap.
C14_ChunkLengthBounded ==
    (Chunked /\ \A i \in DOMAIN ParagraphsOf(call.document) :
                   Len(ParagraphsOf(call.document)[i]) <= chunk_size) =>
        \A k \in DOMAIN call.chunks :
            Len(call.chunks[k].content) <= chunk_size + chunk_overlap

IsPrefix(p, s) == Len(p) <= Len(s) /\ SubSeq(s, 1, Len(p)) = p

\* C15: with chunk_overlap > 0 every chunk after the first begins with the
\* last chunk_overlap characters of the chunk before it (the whole chunk when
\* it is shorter), then the separator and a paragraph of the document.
C15_ChunkBeginsWithOverlap ==
    (Chunked /\ chunk_overlap > 0) =>
        \A k \in 1..(Len(call.chunks) - 1) :
            \E i \in DOMAIN ParagraphsOf(call.document) :
                IsPrefix(LastChars(call.chunks[k].content, chunk_overlap)
                           \o <<NL, NL>> \o ParagraphsOf(call.document)[i],
                         call.chunks[k + 1].content)

\* C16: the chunks of a document carry the chunk_index values 0, 1, ..., n-1
\* in order, the id of a chunk is made of the document id and its
\* chunk_index, and no two chunks of the document have the same id.
C16_ChunkIndexSequence ==
    Chunked =>
        /\ \A k \in DOMAIN call.chunks :
             /\ call.chunks[k].chunk_index = k - 1
             /\ call.chunks[k].document_id = call.document.id
             /\ call.chunks[k].id = <<call.document.id, "_chunk_", k - 1>>
        /\ \A j, k \in DOMAIN call.chunks :
             j # k => call.chunks[j].id # call.chunks[k].id

\* a document chunked into three chunks
C16_Witness == Chunked /\ Len(call.chunks) = 3

-----------------------------------------------------------------------------
(* C17 *)

EmbedDone == call.fn = "embed_texts" /\ call.done

\* the provider calls a list takes when none of them fails
ProviderCalls(texts, configured) ==
    IF texts = <<>> THEN 0
    ELSE IF configured = "openai"
    THEN (Len(texts) + batch_size - 1) \div batch_size
    ELSE 1

ProviderFailed ==
    call.failing_call \in 1..ProviderCalls(call.texts, call.provider)

CreateHitEmbedFailure ==
    /\ last.op = "create"
    /\ last.fault[2] = "embed"
    /\ "embed" \in last.effects

\* C17: when the provider fails for any batch, embed_texts raises and hands
\* back no vector, whatever the earlier batches returned (and a call no batch
\* of which fails returns one vector per text); a create_knowledge_base whose
\* embedding fails returns False, writes no index and registers nothing.
C17_EmbedFailureLeavesNoVectors ==
    /\ EmbedDone =>
          IF ProviderFailed
          THEN call.result.raised /\ call.result.vectors = <<>>
          ELSE /\ ~call.result.raised
               /\ call.result.vectors = EmbedBatch(call.texts)
    /\ CreateHitEmbedFailure =>
          /\ last.ret = FALSE
          /\ ~last.raised
          /\ "write_index" \notin last.effects
          /\ IndexFileOf(storage, last.kb_name)
               = IndexFileOf(last.before.st, last.kb_name)
          /\ last.kb_name \notin DOMAIN knowledge_bases

\* the third batch fails after two batches were embedded
C17_Witness ==
    /\ EmbedDone
    /\ call.provider = "openai"
    /\ call.failing_call = 3
    /\ call.result.calls = 3
    /\ call.result.raised

-----------------------------------------------------------------------------
(* C18 *)

SimilarDone == call.fn = "find_most_similar" /\ call.done

CandidateScore(idx) ==
    compute_similarity(call.query_embedding, call.candidate_embeddings[idx + 1])

ReturnedIndices == {call.result[p].idx : p \in 1..Len(call.result)}

\* C18: for top_k >= 0, find_most_similar returns min(top_k, number of
\* candidates) pairs, each a valid candidate index with that candidate's
\* score, the indices distinct, the scores non-increasing, and every
\* candidate left out scoring no higher than the last pair returned.
C18_FindMostSimilarIsTopK ==
    (SimilarDone /\ call.top_k >= 0) =>
        LET result == call.result
            n == Len(call.candidate_embeddings)
        IN /\ Len(result) = Min(call.top_k, n)
           /\ \A p \in 1..Len(result) :
                 /\ result[p].idx \in 0..(n - 1)
                 /\ result[p].score = CandidateScore(result[p].idx)
           /\ Cardinality(ReturnedIndices) = Len(result)
           /\ \A p \in 1..(Len(result) - 1) :
                 ScoreGE(result[p].score, result[p + 1].score)
           /\ \A idx \in (0..(n - 1)) \ ReturnedIndices :
                 Len(result) > 0 =>
                     ScoreGE(result[Len(result)].score, CandidateScore(idx))

\* two of three candidates are returned, the last candidate first, and the
\* one left out scores strictly lower than both
C18_Witness ==
    /\ SimilarDone
    /\ call.top_k = 2
    /\ Len(call.candidate_embeddings) = 3
    /\ Len(call.result) = 2
    /\ call.result[1].idx = 2
    /\ \E idx \in 0..2 : /\ idx \notin ReturnedIndices
                         /\ ~ScoreGE(CandidateScore(idx), call.result[2].score)

-----------------------------------------------------------------------------
(* C19 *)

\* C19: embed_texts of the empty list returns the empty list, without raising
\* and without a call to the provider, whichever provider is configured and
\* whether or not the provider would have failed.
C19_EmptyListMakesNoProviderCall ==
    (EmbedDone /\ call.texts = <<>>) =>
        /\ ~call.result.raised
        /\ call.result.vectors = <<>>
        /\ call.result.calls = 0

\* the empty list with the local model configured and failing
C19_Witness ==
    /\ EmbedDone
    /\ call.texts = <<>>
    /\ call.provider = "huggingface"
    /\ call.failing_call = 1
    /\ call.result.vectors = <<>>

-----------------------------------------------------------------------------
(* C20 *)

AgentDone(fn) == call.fn = fn /\ call.done

\* C20: whatever calls have been made, the registry holds an entry under the
\* reserved default name; delete_agent of that name returns False and
\* leaves the registry as it was.
C20_DefaultAgentStays ==
    /\ DefaultAgentName \in DOMAIN agents
    /\ (AgentDone("delete_agent") /\ call.name = DefaultAgentName) =>
          call.ret = FALSE /\ agents = call.before

\* delete_agent of the default profile has been refused on a registry that
\* holds another profile too
C20_Witness ==
    /\ AgentDone("delete_agent")
    /\ call.name = DefaultAgentName
    /\ call.ret = FALSE
    /\ DOMAIN agents = AgentNames

-----------------------------------------------------------------------------
(* C21 *)

\* the profile get_system_prompt answers for: the named one, the default one
\* for a name that is not registered
AnsweringProfile ==
    IF call.name \in DOMAIN agents THEN agents[call.name]
    ELSE agents[DefaultAgentName]

\* C21: get_system_prompt returns the named profile's prompt followed by the
\* context block (nothing for an empty context); for a name that is not
\* registered it returns the default profile's prompt followed by the same
\* block; it never raises.
C21_SystemPromptFallsBack ==
    AgentDone("get_system_prompt") =>
        /\ ~call.ret.raised
        /\ call.ret.parts[1] = AnsweringProfile.system_prompt
        /\ SubSeq(call.ret.parts, 2, Len(call.ret.parts))
             = IF call.context = <<>> THEN <<>>
               ELSE <<ContextHeader, call.context>>

\* an unregistered name is answered with a default profile whose prompt an
\* update has replaced, with the context after it
C21_Witness ==
    /\ AgentDone("get_system_prompt")
    /\ call.name = UnknownAgentName
    /\ call.context = <<"doc">>
    /\ call.ret.parts = <<"reviewer", ContextHeader, <<"doc">>>>

-----------------------------------------------------------------------------
(* C22 *)

PresetsOf(file) == IF file.st = "ok" THEN file.data ELSE <<>>

\* the names under which the items of the presets file would be registered
PresetConfigNames ==
    LET presets == PresetsOf(call.presets_file)
    IN {presets[i][2].name :
          i \in {j \in 1..Len(presets) : presets[j][2] # Malformed}}

\* C22: load_presets leaves every profile that was registered before the call
\* as it was, adds profiles only under names that were not registered and
\* that the presets file gives, and returns the number of profiles added.
C22_LoadPresetsOnlyAdds ==
    AgentDone("load_presets") =>
        /\ \A name \in DOMAIN call.before :
              name \in DOMAIN agents /\ agents[name] = call.before[name]
        /\ (DOMAIN agents \ DOMAIN call.before) \subseteq PresetConfigNames
        /\ call.ret = Cardinality(DOMAIN agents \ DOMAIN call.before)

\* a presets file of two items: the one named as the registered default
\* profile, with another prompt, is skipped and the other one is added
C22_Witness ==
    /\ AgentDone("load_presets")
    /\ Len(PresetsOf(call.presets_file)) = 2
    /\ \E i \in 1..2 :
          /\ call.presets_file.data[i][1] = DefaultAgentName
          /\ call.presets_file.data[i][2] # Malformed
          /\ call.presets_file.data[i][2].system_prompt
               # call.before[DefaultAgentName].system_prompt
    /\ call.ret = 1
    /\ agents[DefaultAgentName] = call.before[DefaultAgentName]

-----------------------------------------------------------------------------
(* C23 *)

C23_UpdatedKeepsCreatedAt ==
    (AgentDone("update_agent") /\ call.name \in DOMAIN call.before) =>
        agents[call.name].created_at = call.before[call.name].created_at

-----------------------------------------------------------------------------
(* C24 *)

\* a query_stream_with_context that has called the generator
ContextGeneration ==
    /\ last.op = "query_stream_with_context"
    /\ "generate" \in last.effects

\* the prompt of the agent the call selects and the context the call retrieved
SelectedPrompt ==
    IF last.agent_name \in DOMAIN agents
    THEN agents[last.agent_name].system_prompt
    ELSE agents[DefaultAgentName].system_prompt

RetrievedContext ==
    StreamContext(StreamRetrieval(last.before, last.kb_name, last.query_text,
                                  last.top_k, last.fault[2]).reply.context)

PromptWithContext == <<SelectedPrompt, ContextHeader, RetrievedContext>>

-----------------------------------------------------------------------------
(* C25 *)

\* both threads have returned from create_knowledge_base of one name
RaceOver ==
    /\ call.fn = "create_knowledge_base"
    /\ \A t \in Threads : call.threads[t].pc = "done"
    /\ call.threads[1].name = call.threads[2].name

Position(t, step) == CHOOSE i \in 1..Len(call.log) : call.log[i] = <<t, step>>

\* every thread made its test before any thread registered the name
BothPassedCheck ==
    \A t \in Threads, u \in Threads :
        /\ <<u, "register">> \in {call.log[i] : i \in 1..Len(call.log)}
        /\ Position(t, "check") < Position(u, "register")

\* the thread that took the step last
LastAt(step) ==
    CHOOSE t \in Threads :
        \A u \in Threads : Position(u, step) <= Position(t, step)

\* C25: when two create_knowledge_base calls of one unregistered name have
\* both made the test for a registered name before either registered it,
\* both return True, and the index file, the chunk file and the registry
\* entry are those of the thread that wrote each of them last: what the
\* other thread wrote is overwritten.
C25_ConcurrentCreatesBothSucceed ==
    (RaceOver /\ BothPassedCheck) =>
        LET dir == StorageDir(call.threads[1].name) IN
        /\ \A t \in Threads : call.threads[t].ret = TRUE
        /\ storage[dir].index
             = FileOf(IndexRows(call.threads[LastAt("build_index")].vectors))
        /\ storage[dir].chunks
             = FileOf(call.threads[LastAt("save_chunks")].chunks)
        /\ knowledge_bases[call.threads[1].name]
             = RaceInfo(call.threads[LastAt("register")])

\* both calls returned True on different folders, and nothing of what the
\* first thread wrote is left
C25_Witness ==
    /\ RaceOver
    /\ BothPassedCheck
    /\ \A t \in Threads : call.threads[t].ret = TRUE
    /\ call.threads[1].chunks # call.threads[2].chunks
    /\ storage[StorageDir(call.threads[1].name)].index
         = FileOf(IndexRows(call.threads[2].vectors))
    /\ storage[StorageDir(call.threads[1].name)].chunks
         = FileOf(call.threads[2].chunks)
    /\ knowledge_bases[call.threads[1].name] = RaceInfo(call.threads[2])

-----------------------------------------------------------------------------
(* C26 *)

\* C26: a create_knowledge_base or delete_knowledge_base of a name leaves the
\* index file and the chunk file of every other registered name as they
\* were, also when the two names are stored under one directory name.
C26_ArtifactsNotShared ==
    (last.op \in {"create", "delete"}) =>
        \A other \in DOMAIN last.before.kbs \ {last.kb_name} :
            /\ IndexFileOf(storage, other) = IndexFileOf(last.before.st, other)
            /\ ChunkFileOf(storage, other) = ChunkFileOf(last.before.st, other)

-----------------------------------------------------------------------------
(* C27 *)

\* C27: a query of a registered name whose storage directory (the one
\* create_knowledge_base wrote to) holds a loadable index file and a
\* loadable chunk file with chunks is not answered with the message that
\* the data is incomplete, whatever characters the name has.
C27_QueryReadsWhatCreateWrote ==
    (/\ last.op = "query"
     /\ last.kb_name \in DOMAIN knowledge_bases
     /\ IndexFileOf(storage, last.kb_name).st = "ok"
     /\ ChunkFileOf(storage, last.kb_name).st = "ok"
     /\ ChunkFileOf(storage, last.kb_name).data # <<>>)
        => last.out # <<IncompleteMsg>>

-----------------------------------------------------------------------------
(* C28: the items a stream yields once the generation has begun *)

StreamItems == last.out

Generating == last.op \in StreamOps /\ "generate" \in last.effects

\* the final item is a reference list whose k-th line carries the number and
\* the source that the k-th entry of the context carries
IsReferenceList(item, kept) ==
    /\ Head(item) = "references"
    /\ Len(item) = Len(kept) + 1
    /\ \A k \in 1..Len(kept) :
         /\ item[k + 1][1] = StreamContext(kept)[k][1]
         /\ item[k + 1][2] = StreamContext(kept)[k][2].source

\* C28: in query_stream and query_stream_with_context, when the generation
\* succeeds the items yielded are the generator's fragments, unchanged and
\* in arrival order, followed by exactly one more item, the reference list
\* numbering the retained chunks as the context does; when the generator
\* fails, the fragments already yielded are followed by one failure message
\* and no reference list.
C28_StreamFragmentsThenReferences ==
    Generating =>
        LET n == Len(StreamItems) IN
        CASE last.fault[2] = "generate" ->
               StreamItems = <<QueryFailedMsg>>
          [] last.fault[2] = "generate_midstream" ->
               /\ n = 2
               /\ StreamItems[1] = LLMFragments[1]
               /\ BeginsWithMarker(StreamItems[2])
               /\ \A k \in 1..n : Head(StreamItems[k]) # "references"
          [] OTHER ->
               /\ n = Len(LLMFragments) + 1
               /\ SubSeq(StreamItems, 1, n - 1) = LLMFragments
               /\ IsReferenceList(StreamItems[n], last.context)

\* a stream over two retained chunks that ended with its reference list
C28_Witness ==
    /\ Generating
    /\ last.op = "query_stream_with_context"
    /\ last.fault[2] = "none"
    /\ Len(last.context) = 2
    /\ Len(StreamItems) = 3
    /\ Head(StreamItems[3]) = "references"

-----------------------------------------------------------------------------
(* C29: the placeholders of a search that asks for more than the index holds *)

\* the vectors of the index the stream searched
IndexedVectors == IndexFileOf(storage, last.kb_name).data

\* C29: when the index holds fewer than top_k vectors, the context of
\* query_stream and query_stream_with_context holds only chunks returned as
\* neighbours: no entry comes from the placeholder label -1, no chunk is
\* there twice, and there are at most as many entries as indexed vectors.
C29_PlaceholdersDiscarded ==
    (/\ last.op \in StreamOps
     /\ "generate" \in last.effects
     /\ last.fault[2] = "none"
     /\ Len(IndexedVectors) < last.top_k) =>
        /\ \A p \in DOMAIN last.context : last.context[p].idx >= 0
        /\ \A p, q \in DOMAIN last.context :
             last.context[p].idx = last.context[q].idx => p = q
        /\ Len(last.context) <= Len(IndexedVectors)

-----------------------------------------------------------------------------
(* C30: the vector index, the chunk file and chunk_count of a registered name *)

\* the index on disk holds the vector of every persisted chunk, row by row;
\* a file that is not there holds nothing
IndexMatchesChunks(index, chunks) ==
    /\ index.st # "corrupt"
    /\ chunks.st # "corrupt"
    /\ Len(index.data) = Len(chunks.data)
    /\ \A k \in 1..Len(chunks.data) :
         index.data[k] = normalize_L2(Raw(EmbedModel(chunks.data[k].content)))

\* C30: for every registered knowledge base, after any sequence of create /
\* delete / update calls (failed attempts that reuse the storage directory
\* included), the vector index on disk holds exactly one vector per persisted
\* chunk, in the same order, and chunk_count of the registry is that number.
C30_IndexAlignedWithChunks ==
    call.done =>
        \A n \in DOMAIN knowledge_bases :
            /\ IndexMatchesChunks(IndexFileOf(storage, n), ChunkFileOf(storage, n))
            /\ knowledge_bases[n].chunk_count = Len(ChunkFileOf(storage, n).data)

====
